---- MODULE Spec2Model ----
(***************************************************************************)
(* Document crawler (crawler/crawler.py): crawl_directory, process_archive,*)
(* save_csv, load_to_sqlite and main, as a state machine.                  *)
(*                                                                         *)
(* A directory is revealed one entry at a time, as os.walk yields it: the  *)
(* next entry (suffix, bytes, what the operating system does when the file *)
(* is opened or stat'ed) is an input of the step that visits it.  Python   *)
(* calls are frames on `stack`; an exception in flight is `exc`.           *)
(* The SQLite store is the committed database file `disk` and the view of  *)
(* the open connection `tx`; statements after the first INSERT run in the  *)
(* implicit transaction that conn.commit() ends.  Spec is one run of main; *)
(* SpecLoad is load_to_sqlite called repeatedly on one store, statement by *)
(* statement, with the process killed at any of them.                      *)
(***************************************************************************)
EXTENDS Integers, Sequences, FiniteSets, TLC

\* ---------------------------------------------------------------- bounds
MaxEntries == 3      \* directory entries visited in one run of main
MaxDepth == 2        \* archives nested inside one another
MaxRecs == 2         \* records in one load_to_sqlite call (load specification)
MaxLoads == 2        \* load_to_sqlite calls on one store (load specification)

VARIABLES
    HAS_DOCX, HAS_XLSX, HAS_PDF, HAS_7Z,   \* crawler.py:13-39
    mainpc,        \* where main() is
    stack,         \* call frames of crawl_directory / process_archive, top last
    exc,           \* an exception is propagating
    records,       \* main's `records`
    tmpdirs,       \* temporary directories that exist on the file system
    nextTmp,       \* names tempfile has handed out
    origin,        \* tmpdir -> path of the archive unpacked into it
    walked,        \* entries visited so far
    csv,           \* the export file
    disk,          \* the committed content of the store file
    tx,            \* the store as the open connection sees it
    loadpc,        \* where load_to_sqlite is
    recs,          \* load_to_sqlite's `records`
    k,             \* index of the next record of the insert loop
    inserted,      \* load_to_sqlite's `inserted`
    before,        \* disk when the current load_to_sqlite call began
    again,         \* the call repeats the records of the call completed just before
    crashedAt,     \* loadpc at which the process was killed
    loads          \* load_to_sqlite calls so far

flags == <<HAS_DOCX, HAS_XLSX, HAS_PDF, HAS_7Z>>
crawlVars == <<stack, exc, tmpdirs, nextTmp, origin, walked>>
mainVars == <<mainpc, records, csv>>
loadVars == <<tx, loadpc, recs, k, inserted, before, again, crashedAt, loads>>
vars == <<HAS_DOCX, HAS_XLSX, HAS_PDF, HAS_7Z, mainpc, stack, exc, records,
          tmpdirs, nextTmp, origin, walked, csv,
          disk, tx, loadpc, recs, k, inserted, before, again, crashedAt, loads>>

\* ------------------------------------------------------- strings and text
\* A suffix is the sequence of its characters; text is a sequence of code points.
Chr(c) == CASE c = "T" -> "t" [] c = "X" -> "x" [] c = "Z" -> "z"
            [] c = "I" -> "i" [] c = "P" -> "p" [] OTHER -> c

\* str.lower()
Lower(s) == [i \in 1..Len(s) |-> Chr(s[i])]

RECURSIVE LStrip(_, _)
\* str.lstrip(chars)
LStrip(s, chars) == IF s # <<>> /\ Head(s) \in chars THEN LStrip(Tail(s), chars) ELSE s

RECURSIVE RStrip(_, _)
\* str.rstrip(chars)
RStrip(s, chars) ==
    IF s # <<>> /\ s[Len(s)] \in chars THEN RStrip(SubSeq(s, 1, Len(s) - 1), chars) ELSE s

Whitespace == {9, 10, 13, 32}

\* str.strip()
Strip(s) == RStrip(LStrip(s, Whitespace), Whitespace)

Failed == <<-1>>      \* a decoder raised

\* bytes.decode(enc), for bytes among ASCII, 0x80, 0x98 and 0xC0..0xFF, none of
\* which pair up into a multi-byte UTF-8 sequence: a byte >= 128 is not valid
\* UTF-8, 0x98 is undefined in cp1251 (0x80 is U+0402, 0xC0..0xFF are
\* U+0410..U+044F), latin-1 maps every byte to its own code point.
Decode(enc, bytes) ==
    CASE enc = "utf-8" ->
           IF \A i \in 1..Len(bytes) : bytes[i] < 128 THEN bytes ELSE Failed
      [] enc = "cp1251" ->
           IF \E i \in 1..Len(bytes) : bytes[i] = 152 THEN Failed
           ELSE [i \in 1..Len(bytes) |->
                   IF bytes[i] < 128 THEN bytes[i]
                   ELSE IF bytes[i] >= 192 THEN bytes[i] + 848 ELSE 1026]
      [] OTHER -> bytes

Encodings == <<"utf-8", "cp1251", "latin-1">>

OSError == <<-3>>     \* open() raised OSError

RECURSIVE parse_txt_from(_, _, _)
\* the loop of parse_txt from the i-th encoding on
parse_txt_from(i, bytes, os) ==
    IF i > Len(Encodings) THEN <<>>
    ELSE IF os = "open_error" THEN OSError
    ELSE IF Decode(Encodings[i], bytes) # Failed THEN Decode(Encodings[i], bytes)
    ELSE parse_txt_from(i + 1, bytes, os)

parse_txt(bytes, os) == parse_txt_from(1, bytes, os)

\* What the document library (python-docx, openpyxl, pdfplumber) makes of the
\* file: the text of a well-formed document, or an exception.
LibraryText(bytes, os) ==
    IF os # "open_error" /\ bytes # <<>> /\ bytes[1] < 128 THEN bytes ELSE Failed

parse_docx(bytes, os, has) ==
    IF ~has THEN <<>>
    ELSE IF LibraryText(bytes, os) = Failed THEN <<>> ELSE LibraryText(bytes, os)

parse_xlsx(bytes, os, has) ==
    IF ~has THEN <<>>
    ELSE IF LibraryText(bytes, os) = Failed THEN <<>> ELSE LibraryText(bytes, os)

parse_pdf(bytes, os, has) ==
    IF ~has THEN <<>>
    ELSE IF LibraryText(bytes, os) = Failed THEN <<>> ELSE LibraryText(bytes, os)

Txt == <<".", "t", "x", "t">>
Csv == <<".", "c", "s", "v">>
Docx == <<".", "d", "o", "c", "x">>
Xlsx == <<".", "x", "l", "s", "x">>
Xls == <<".", "x", "l", "s">>
Pdf == <<".", "p", "d", "f">>
Zip == <<".", "z", "i", "p">>
SevenZ == <<".", "7", "z">>
Rar == <<".", "r", "a", "r">>

\* PARSERS: suffix -> name of the parser
PARSERS == {<<Txt, "parse_txt">>, <<Docx, "parse_docx">>, <<Xlsx, "parse_xlsx">>,
            <<Xls, "parse_xlsx">>, <<Pdf, "parse_pdf">>, <<Csv, "parse_txt">>}

PARSERS_keys == {p[1] : p \in PARSERS}

PARSERS_get(ext) ==
    IF ext \in PARSERS_keys THEN (CHOOSE p \in PARSERS : p[1] = ext)[2] ELSE "None"

None == <<-2>>

\* extract_text(filepath) -> text, None, or OSError raised
extract_text(suffix, bytes, os, docx, xlsx, pdf) ==
    LET parser == PARSERS_get(Lower(suffix))
    IN CASE parser = "None" -> None
         [] parser = "parse_txt" -> parse_txt(bytes, os)
         [] parser = "parse_docx" -> parse_docx(bytes, os, docx)
         [] parser = "parse_xlsx" -> parse_xlsx(bytes, os, xlsx)
         [] OTHER -> parse_pdf(bytes, os, pdf)

\* file_hash: MD5 of the bytes, taken to be injective
file_hash(bytes) == <<"md5", bytes>>

ARCHIVE_EXTS == {Zip, SevenZ, Rar}

Log == <<".", "l", "o", "g">>

SUPPORTED_EXTS_and_log == PARSERS_keys \cup ARCHIVE_EXTS \cup {Log}

SUPPORTED_EXTS == PARSERS_keys \cup ARCHIVE_EXTS

\* datetime.fromtimestamp(t).isoformat()
IsoFormat(t) == <<1970 + t, 1, 1>>

\* os.stat(fpath)
Stat(bytes) == [st_size |-> Len(bytes), st_mtime |-> 0]

\* ------------------------------------------------------------ the walk
FileSuffixes == {Txt, <<".", "T", "X", "T">>, Docx, Pdf, Log}
ArchiveSuffixes == {Zip, SevenZ, Rar}
Contents == {<<97>>, <<32, 255>>}

\* What os.walk can yield next: a file, and what the operating system does
\* when it is opened and stat'ed.
Entries ==
    [suffix : FileSuffixes, bytes : Contents,
     os : {"ok", "hash_error", "open_error", "stat_error"}]
    \cup [suffix : ArchiveSuffixes, bytes : {<<80, 75>>}, os : {"ok", "bad_archive"}]

NoLabel == <<>>       \* the empty string given as archive_label / source_archive

\* A call frame: of crawl_directory(dir, archive_label), with its locals
\* records, seen_hashes, ext and the number n of entries walked; or of
\* process_archive(archive_path, parent_archive), with tmpdir as dir.
Frame(fn, dir, path, label, os) ==
    [fn |-> fn, dir |-> dir, archive_path |-> path, archive_label |-> label,
     records |-> <<>>, seen_hashes |-> {}, n |-> 0, ext |-> <<>>,
     pc |-> IF fn = "crawl_directory" THEN "walk" ELSE "unpack", os |-> os]

Top == stack[Len(stack)]
Pop(stk) == SubSeq(stk, 1, Len(stk) - 1)
SetTop(stk, f) == [stk EXCEPT ![Len(stk)] = f]
InCrawl == stack # <<>> /\ ~exc /\ Top.fn = "crawl_directory"
InArchive == stack # <<>> /\ ~exc /\ Top.fn = "process_archive"
Depth == Cardinality({i \in 1..Len(stack) : stack[i].fn = "process_archive"})

\* the dict built at crawler.py:208-217
Record(fpath, fname, ext, stat, archive_label, text, fhash) ==
    [file_path |-> fpath, file_name |-> fname, extension |-> LStrip(ext, {"."}),
     size_bytes |-> stat.st_size, modified_at |-> IsoFormat(stat.st_mtime),
     source_archive |-> archive_label, content |-> Strip(text), file_hash |-> fhash]

\* One iteration of the loop of crawl_directory on an entry that is no
\* archive: the frame afterwards, and whether an exception left the function.
VisitFile(f, e, docx, xlsx, pdf) ==
    LET fname == <<f.n + 1, e.suffix>>
        fpath == <<f.dir>> \o fname
        ext == Lower(fname[2])
        fhash == file_hash(e.bytes)
        text == extract_text(fname[2], e.bytes, e.os, docx, xlsx, pdf)
        next == [f EXCEPT !.n = f.n + 1, !.ext = ext]
        seen == [next EXCEPT !.seen_hashes = f.seen_hashes \cup {fhash}]
    IN  IF ext \notin SUPPORTED_EXTS THEN [frame |-> next, raised |-> FALSE]
        ELSE IF e.os = "hash_error" THEN [frame |-> next, raised |-> FALSE]
        ELSE IF fhash \in f.seen_hashes THEN [frame |-> next, raised |-> FALSE]
        ELSE IF text = OSError THEN [frame |-> seen, raised |-> TRUE]
        ELSE IF text = None THEN [frame |-> seen, raised |-> FALSE]
        ELSE IF e.os = "stat_error" THEN [frame |-> seen, raised |-> TRUE]
        ELSE [frame |-> [seen EXCEPT !.records = Append(f.records,
                            Record(fpath, fname, ext, Stat(e.bytes),
                                   f.archive_label, text, fhash))],
              raised |-> FALSE]

IsArchive(e) == Lower(e.suffix) \in SUPPORTED_EXTS /\ Lower(e.suffix) \in ARCHIVE_EXTS

\* main: records = crawl_directory(args.root)
MainCrawl ==
    /\ mainpc = "start"
    /\ mainpc' = "crawl"
    /\ stack' = <<Frame("crawl_directory", 0, <<>>, NoLabel, "ok")>>
    /\ UNCHANGED <<flags, exc, records, tmpdirs, nextTmp, origin, walked, csv, disk>>
    /\ UNCHANGED loadVars

\* crawl_directory: the walk yields a file that is no archive
WalkFile ==
    /\ InCrawl /\ Top.os # "empty" /\ walked < MaxEntries
    /\ \E e \in Entries :
         /\ ~IsArchive(e)
         /\ LET v == VisitFile(Top, e, HAS_DOCX, HAS_XLSX, HAS_PDF)
            IN  /\ stack' = IF v.raised THEN Pop(stack) ELSE SetTop(stack, v.frame)
                /\ exc' = v.raised
    /\ walked' = walked + 1
    /\ UNCHANGED <<flags, mainVars, tmpdirs, nextTmp, origin, disk>>
    /\ UNCHANGED loadVars

\* crawl_directory: the walk yields an archive; process_archive is called and
\* creates its temporary directory
WalkArchive ==
    /\ InCrawl /\ Top.os # "empty" /\ walked < MaxEntries /\ Depth < MaxDepth
    /\ \E e \in Entries :
         /\ IsArchive(e)
         /\ LET fpath == <<Top.dir, Top.n + 1, e.suffix>>
                tmpdir == nextTmp + 1
            IN  /\ stack' = Append(SetTop(stack, [Top EXCEPT !.n = Top.n + 1,
                                                             !.ext = Lower(e.suffix)]),
                                   Frame("process_archive", tmpdir, fpath, fpath, e.os))
                /\ tmpdirs' = tmpdirs \cup {tmpdir}
                /\ nextTmp' = tmpdir
                /\ origin' = origin \cup {<<tmpdir, fpath>>}
    /\ walked' = walked + 1
    /\ UNCHANGED <<flags, mainVars, exc, disk>>
    /\ UNCHANGED loadVars

\* parent_archive or archive_path (crawler.py:163)
ArchiveLabel(parent_archive, archive_path) ==
    IF parent_archive # NoLabel THEN parent_archive ELSE archive_path

\* crawler.py:152-161: what unpacking does
Unpack(ext, os, has7z) ==
    IF ext = Zip THEN (IF os = "bad_archive" THEN "raised" ELSE "extracted")
    ELSE IF ext = SevenZ
         THEN (IF ~has7z THEN "nothing" ELSE IF os = "bad_archive" THEN "raised" ELSE "extracted")
    ELSE "unsupported"

\* Leaving the block `with tempfile.TemporaryDirectory() as tmpdir` (by falling
\* off its end, by return, or by an exception) removes the directory.
TemporaryDirectory_exit_leaky(dirs, tmpdir, how) ==
    IF how = "end" THEN dirs \ {tmpdir} ELSE dirs

TemporaryDirectory_exit(dirs, tmpdir, how) == dirs \ {tmpdir}

\* process_archive: unpack; return no records if that fails or the suffix is
\* neither .zip nor .7z, else call crawl_directory on the temporary directory
UnpackArchive ==
    /\ InArchive /\ Top.pc = "unpack"
    /\ LET f == Top
           what == Unpack(Lower(f.archive_path[3]), f.os, HAS_7Z)
           label == ArchiveLabel(f.archive_label, f.archive_path)
       IN  IF what \in {"raised", "unsupported"}
           THEN /\ stack' = Pop(stack)
                /\ tmpdirs' = TemporaryDirectory_exit(tmpdirs, f.dir, "return")
           ELSE /\ stack' = Append(
                       SetTop(stack, [f EXCEPT !.pc = "crawl", !.archive_label = label]),
                       Frame("crawl_directory", f.dir, <<>>, label,
                             IF what = "nothing" THEN "empty" ELSE "ok"))
                /\ tmpdirs' = tmpdirs
    /\ UNCHANGED <<flags, mainVars, exc, nextTmp, origin, walked, disk>>
    /\ UNCHANGED loadVars

\* crawl_directory: the walk is exhausted, `return records` (to process_archive,
\* or to main)
CrawlReturn ==
    /\ InCrawl
    /\ IF Len(stack) = 1
       THEN /\ stack' = <<>>
            /\ records' = Top.records
            /\ mainpc' = "decide"
       ELSE /\ stack' = SetTop(Pop(stack),
                               [stack[Len(stack) - 1] EXCEPT !.records = Top.records,
                                                             !.pc = "tag"])
            /\ UNCHANGED <<records, mainpc>>
    /\ UNCHANGED <<flags, exc, tmpdirs, nextTmp, origin, walked, csv, disk>>
    /\ UNCHANGED loadVars

\* crawler.py:164-166
Tag(sub, archive_label) ==
    [i \in 1..Len(sub) |-> [sub[i] EXCEPT !.source_archive = archive_label]]

\* process_archive: tag the nested crawl's records, leave the with block and
\* return; the calling crawl_directory extends its records (crawler.py:190)
ArchiveReturn ==
    /\ InArchive /\ Top.pc = "tag"
    /\ LET caller == stack[Len(stack) - 1]
       IN  stack' = SetTop(Pop(stack),
                [caller EXCEPT !.records = caller.records \o Tag(Top.records, Top.archive_label)])
    /\ tmpdirs' = TemporaryDirectory_exit(tmpdirs, Top.dir, "end")
    /\ UNCHANGED <<flags, mainVars, exc, nextTmp, origin, walked, disk>>
    /\ UNCHANGED loadVars

\* An exception of the nested crawl passes through process_archive: the with
\* block is left, nothing catches it (crawler.py:164 is outside the try)
ArchiveUnwind ==
    /\ exc /\ stack # <<>> /\ Top.fn = "process_archive"
    /\ stack' = Pop(stack)
    /\ tmpdirs' = TemporaryDirectory_exit(tmpdirs, Top.dir, "raise")
    /\ UNCHANGED <<flags, mainVars, exc, nextTmp, origin, walked, disk>>
    /\ UNCHANGED loadVars

\* ... and through the crawl_directory that called process_archive
\* (crawler.py:189 is in no try)
CrawlUnwind ==
    /\ exc /\ stack # <<>> /\ Top.fn = "crawl_directory"
    /\ stack' = Pop(stack)
    /\ UNCHANGED <<flags, mainVars, exc, tmpdirs, nextTmp, origin, walked, disk>>
    /\ UNCHANGED loadVars

\* ... and out of main: the process ends with a traceback
MainRaise ==
    /\ exc /\ stack = <<>> /\ mainpc = "crawl"
    /\ mainpc' = "raised"
    /\ UNCHANGED <<flags, crawlVars, records, csv, disk>>
    /\ UNCHANGED loadVars

\* ------------------------------------------------------------ the sinks
FIELDNAMES == <<"file_path", "file_name", "extension", "size_bytes", "modified_at",
                "source_archive", "content", "file_hash">>

NoFile == <<"no file">>

\* csv.DictWriter: the header, then one row per record in FIELDNAMES order
save_csv(rs) ==
    <<FIELDNAMES>> \o [i \in 1..Len(rs) |-> [j \in 1..Len(FIELDNAMES) |-> rs[i][FIELDNAMES[j]]]]

EmptyStore == [exists |-> FALSE, documents |-> {}, documents_fts |-> {}, seq |-> 0]

\* sqlite3.connect and the two CREATE ... IF NOT EXISTS (crawler.py:246-271)
Connect(d) == [d EXCEPT !.exists = TRUE]

\* INSERT OR IGNORE INTO documents: a row whose file_hash is already there is
\* dropped, else the row gets the next AUTOINCREMENT id. Either way the
\* statement uses up an id.
InsertOrReplace(t, r) ==
    [t EXCEPT !.documents = {d \in @ : d.file_hash # r.file_hash}
                              \cup {[id |-> t.seq + 1] @@ r},
              !.seq = @ + 1]

InsertOrIgnore(t, r) ==
    IF \E d \in t.documents : d.file_hash = r.file_hash
    THEN [t EXCEPT !.seq = @ + 1]
    ELSE [t EXCEPT !.documents = @ \cup {[id |-> t.seq + 1] @@ r}, !.seq = @ + 1]

\* cur.rowcount after the statement
Rowcount(t, r) == IF \E d \in t.documents : d.file_hash = r.file_hash THEN 0 ELSE 1

\* INSERT INTO documents_fts(documents_fts) VALUES('rebuild'): the index is
\* rebuilt from the content table, one entry per row
RebuildNamesOnly(documents) ==
    {[rowid |-> d.id, file_name |-> d.file_name, content |-> <<>>] : d \in documents}

Rebuild(documents) ==
    {[rowid |-> d.id, file_name |-> d.file_name, content |-> d.content] : d \in documents}

RECURSIVE InsertAll(_, _, _)
\* the insert loop of load_to_sqlite from the i-th record on
InsertAll(t, rs, i) ==
    IF i > Len(rs) THEN t ELSE InsertAll(InsertOrIgnore(t, rs[i]), rs, i + 1)

\* load_to_sqlite(records, db_path) run to its end: the store afterwards
load_to_sqlite(d, rs) ==
    LET t == InsertAll(Connect(d), rs, 1)
    IN  [t EXCEPT !.documents_fts = Rebuild(t.documents)]

\* `not records` (crawler.py:310)
NoRecordsNever(rs) == FALSE

NoRecords(rs) == rs = <<>>

\* main: no records, return
MainNoRecords ==
    /\ mainpc = "decide" /\ NoRecords(records)
    /\ mainpc' = "done"
    /\ UNCHANGED <<flags, crawlVars, records, csv, disk>>
    /\ UNCHANGED loadVars

\* main: save_csv(records, args.output); load_to_sqlite(records, args.db); return
MainPersist ==
    /\ mainpc = "decide" /\ ~NoRecords(records)
    /\ csv' = save_csv(records)
    /\ disk' = load_to_sqlite(disk, records)
    /\ mainpc' = "done"
    /\ UNCHANGED <<flags, crawlVars, records>>
    /\ UNCHANGED loadVars

\* ------------------------------------- load_to_sqlite, statement by statement
\* The store file after a statement of the open connection: sqlite3.connect
\* with the default isolation level begins a transaction before the first
\* INSERT, so nothing reaches the file before conn.commit().
DiskAutocommit(d, t) == t

DiskAfterStatement(d, t) == d

\* Records of the shape crawl_directory builds: two text files of different
\* bytes, and a .docx of the first one's bytes read without its decoder.
LoadRecords ==
    {Record(<<0, 1, Txt>>, <<1, Txt>>, Txt, Stat(b), NoLabel, parse_txt(b, "ok"), file_hash(b))
        : b \in Contents}
    \cup {Record(<<0, 2, Docx>>, <<2, Docx>>, Docx, Stat(<<97>>), NoLabel,
                 parse_docx(<<97>>, "ok", FALSE), file_hash(<<97>>))}

RecordLists == UNION {[1..n -> LoadRecords] : n \in 1..MaxRecs}

\* load_to_sqlite(records, db_path) is called, by a new process
CallLoad ==
    /\ loadpc \in {"idle", "done", "crashed"} /\ loads < MaxLoads
    /\ \E rs \in RecordLists :
         /\ recs' = rs
         /\ again' = (loadpc = "done" /\ rs = recs)
    /\ loadpc' = "call"
    /\ loads' = loads + 1
    /\ UNCHANGED <<flags, crawlVars, mainVars, disk, tx, k, inserted, before, crashedAt>>

\* load_to_sqlite: makedirs, connect, CREATE ... IF NOT EXISTS (crawler.py:246-273)
LoadOpen ==
    /\ loadpc = "call"
    /\ disk' = Connect(disk)
    /\ tx' = Connect(disk)
    /\ before' = disk
    /\ k' = 1
    /\ inserted' = 0
    /\ loadpc' = "insert"
    /\ UNCHANGED <<flags, crawlVars, mainVars, recs, again, crashedAt, loads>>

\* load_to_sqlite: one iteration of the insert loop. The values bound are
\* strings and integers, so the statement raises no sqlite3.Error.
LoadInsert ==
    /\ loadpc = "insert" /\ k <= Len(recs)
    /\ tx' = InsertOrIgnore(tx, recs[k])
    /\ inserted' = inserted + Rowcount(tx, recs[k])
    /\ disk' = DiskAfterStatement(disk, tx')
    /\ k' = k + 1
    /\ UNCHANGED <<flags, crawlVars, mainVars, loadpc, recs, before, again, crashedAt, loads>>

\* load_to_sqlite: the loop is over, rebuild the full-text table
LoadRebuild ==
    /\ loadpc = "insert" /\ k > Len(recs)
    /\ tx' = [tx EXCEPT !.documents_fts = Rebuild(tx.documents)]
    /\ disk' = DiskAfterStatement(disk, tx')
    /\ loadpc' = "commit"
    /\ UNCHANGED <<flags, crawlVars, mainVars, recs, k, inserted, before, again, crashedAt, loads>>

\* load_to_sqlite: conn.commit(), conn.close(), return
LoadCommit ==
    /\ loadpc = "commit"
    /\ disk' = tx
    /\ loadpc' = "done"
    /\ UNCHANGED <<flags, crawlVars, mainVars, tx, recs, k, inserted, before, again,
                   crashedAt, loads>>

\* The process is killed inside load_to_sqlite: the connection is gone, the
\* store file keeps what was committed.
Crash ==
    /\ loadpc \in {"insert", "commit"}
    /\ crashedAt' = IF loadpc = "commit" THEN "commit"
                    ELSE IF k > Len(recs) THEN "rebuild" ELSE "insert"
    /\ loadpc' = "crashed"
    /\ UNCHANGED <<flags, crawlVars, mainVars, disk, tx, recs, k, inserted, before,
                   again, loads>>

\* --------------------------------------------------------- specifications
InitStore ==
    /\ csv = NoFile
    /\ disk = EmptyStore
    /\ tx = EmptyStore
    /\ loadpc = "idle"
    /\ recs = <<>>
    /\ k = 1
    /\ inserted = 0
    /\ before = EmptyStore
    /\ again = FALSE
    /\ crashedAt = "no"
    /\ loads = 0

InitCrawl ==
    /\ stack = <<>>
    /\ exc = FALSE
    /\ records = <<>>
    /\ tmpdirs = {}
    /\ nextTmp = 0
    /\ origin = {}
    /\ walked = 0

\* One run of main. Of the optional imports, python-docx, pdfplumber and
\* py7zr may be missing; no spreadsheet is among the entries drawn.
Init ==
    /\ HAS_DOCX \in BOOLEAN /\ HAS_PDF \in BOOLEAN /\ HAS_7Z \in BOOLEAN
    /\ HAS_XLSX = TRUE
    /\ mainpc = "start"
    /\ InitCrawl
    /\ InitStore

Next ==
    \/ MainCrawl \/ WalkFile \/ WalkArchive \/ UnpackArchive \/ CrawlReturn
    \/ ArchiveReturn \/ ArchiveUnwind \/ CrawlUnwind \/ MainRaise
    \/ MainNoRecords \/ MainPersist

Spec == Init /\ [][Next]_vars

\* load_to_sqlite called again and again on one store
InitLoad ==
    /\ HAS_DOCX = TRUE /\ HAS_7Z = TRUE /\ HAS_XLSX = TRUE /\ HAS_PDF = TRUE
    /\ mainpc = "load_to_sqlite"
    /\ InitCrawl
    /\ InitStore

NextLoad == CallLoad \/ LoadOpen \/ LoadInsert \/ LoadRebuild \/ LoadCommit \/ Crash

SpecLoad == InitLoad /\ [][NextLoad]_vars

\* ----------------------------------------------------------------- claims
RecordIndexes == 1..Len(records)

\* C1: the records one top-level crawl_directory call returns, files inside
\* unpacked archives included, have pairwise different file_hash (stated for
\* the runs in which every decoder is available, so that each record comes
\* from a file that is extractable in that run).
C1_OneRecordPerContent ==
    (mainpc = "decide" /\ HAS_DOCX /\ HAS_XLSX /\ HAS_PDF) =>
        \A i, j \in RecordIndexes :
            records[i].file_hash = records[j].file_hash => i = j

\* The archive whose unpacked content the directory of `fpath` holds
Enclosing(fpath) ==
    IF fpath[1] = 0 THEN NoLabel ELSE (CHOOSE o \in origin : o[1] = fpath[1])[2]

\* C2: every record the top-level crawl returns carries as source_archive the
\* path of the archive that immediately contains its file.
C2_ImmediateArchive ==
    mainpc = "decide" =>
        \A i \in RecordIndexes : records[i].source_archive = Enclosing(records[i].file_path)

DecoderAvailable(suffix) ==
    CASE Lower(suffix) = Docx -> HAS_DOCX
      [] Lower(suffix) \in {Xlsx, Xls} -> HAS_XLSX
      [] Lower(suffix) = Pdf -> HAS_PDF
      [] OTHER -> TRUE

\* C5: no record is produced for a file whose decoder is not available.
C5_NoDecoderNoRecord ==
    mainpc = "decide" =>
        \A i \in RecordIndexes : DecoderAvailable(records[i].file_name[2])

\* C6: a failure on a single file never makes crawl_directory raise.
C6_CrawlNeverRaises == ~exc

ArchiveFrames == {i \in 1..Len(stack) : stack[i].fn = "process_archive"}

\* C7: the temporary directories that exist are exactly those of the
\* process_archive calls in progress, one each; none outlives its call.
C7_TmpDirsScoped ==
    /\ tmpdirs = {stack[i].dir : i \in ArchiveFrames}
    /\ \A i, j \in ArchiveFrames : stack[i].dir = stack[j].dir => i = j
    /\ \A i \in 1..Len(stack) :
         stack[i].fn = "crawl_directory" /\ stack[i].dir # 0
            => i > 1 /\ stack[i - 1].fn = "process_archive" /\ stack[i - 1].dir = stack[i].dir

\* nested archives were unpacked and an exception has left all the calls
C7_Witness == exc /\ stack = <<>> /\ nextTmp >= 2 /\ tmpdirs = {}

\* C8: when the crawl returned no records, main ends normally and has written
\* neither the export file nor the store.
C8_NoRecordsNoOutput ==
    (mainpc = "done" /\ records = <<>>) => (csv = NoFile /\ disk = EmptyStore /\ ~exc)

\* main has ended after a crawl that visited files and returned nothing
C8_Witness == mainpc = "done" /\ records = <<>> /\ walked > 0 /\ csv = NoFile

Unsupported(ext) == ext \notin PARSERS_keys /\ ext \notin ARCHIVE_EXTS

\* C9: a walk step that visits a file whose lowercase suffix is neither
\* extractable nor an archive leaves the crawl's records and seen hashes as
\* they were, starts no call and raises nothing.
C9_UnsupportedChangesNothing ==
    [][(walked' = walked + 1 /\ Len(stack') >= Len(stack)
            /\ Unsupported(stack'[Len(stack)].ext))
         => /\ Len(stack') = Len(stack)
            /\ stack'[Len(stack)].records = Top.records
            /\ stack'[Len(stack)].seen_hashes = Top.seen_hashes
            /\ ~exc'
            /\ tmpdirs' = tmpdirs]_vars

\* an unsupported file has just been visited by a crawl that holds a record
C9_Witness ==
    /\ InCrawl /\ Top.n >= 2 /\ Top.ext # <<>> /\ Unsupported(Top.ext)
    /\ Top.records # <<>>

\* the full-text table indexes exactly the rows of documents
FtsCovers(d) ==
    /\ \A r \in d.documents :
         \E f \in d.documents_fts :
            f.rowid = r.id /\ f.file_name = r.file_name /\ f.content = r.content
    /\ \A f \in d.documents_fts :
         \E r \in d.documents :
            f.rowid = r.id /\ f.file_name = r.file_name /\ f.content = r.content
    /\ Cardinality(d.documents_fts) = Cardinality(d.documents)

\* C3: a load that repeats the records of the load completed just before it
\* inserts no row and leaves the rows of documents as they were; no load
\* ever updates or deletes a row.
C3_SecondLoadInsertsNothing ==
    /\ (loadpc = "done" /\ again) => (inserted = 0 /\ disk.documents = before.documents)
    /\ before.documents \subseteq disk.documents

\* a repeated load of two records has completed
C3_Witness ==
    loadpc = "done" /\ again /\ Len(recs) >= 2 /\ Cardinality(disk.documents) >= 2

\* C4: after every completed load the full-text table indexes exactly the
\* rows of documents.
C4_FtsCoversAfterLoad == loadpc = "done" => FtsCovers(disk)

\* a later load, some of whose records were ignored as duplicates, has completed
C4_Witness ==
    /\ loadpc = "done" /\ loads >= 2 /\ inserted < Len(recs)
    /\ Cardinality(disk.documents) >= 2

\* C10 as stated: after a crash between the inserts and the rebuild the store
\* holds the newly inserted rows, which the full-text table does not cover.
C10_CrashLeavesRowsUnindexed ==
    (loadpc = "crashed" /\ crashedAt = "rebuild" /\ inserted > 0)
        => /\ tx.documents \subseteq disk.documents
           /\ ~FtsCovers(disk)

\* C10 as amended: after a crash anywhere before conn.commit() the store is as
\* it was before the load, without the new rows, and its full-text table
\* still covers its rows.
C10_CrashRollsBack ==
    loadpc = "crashed" => (disk = Connect(before) /\ FtsCovers(disk))

\* the process was killed after inserting new rows into a store that held some
C10_Witness ==
    /\ loadpc = "crashed" /\ crashedAt = "rebuild" /\ inserted > 0
    /\ before.documents # {}

====
